---- MODULE Spec2Model ----
(***************************************************************************)
(* Phishing URL detector (backend/model.py, backend/app.py).               *)
(*                                                                         *)
(*   SpecLifecycle  callers of ensure_model() / train_or_load() running    *)
(*                  concurrently against the model.pkl file                *)
(*   SpecApp        the FastAPI application: module import (which calls    *)
(*                  ensure_model() once), then /predict requests handled   *)
(*                  by worker threads that update metrics.json             *)
(*   SpecExplain    URLModel.predict_with_explain as a function of the     *)
(*                  classifier and the extracted feature vector            *)
(*                                                                         *)
(* Doubles are modelled as integers (weights, feature values, scores);     *)
(* probabilities are in thousandths.                                       *)
(***************************************************************************)
EXTENDS Integers, Sequences, FiniteSets, TLC

VARIABLES
    file,        \* content of MODEL_PATH (model.pkl)
    frame,       \* per caller: the frame of its ensure_model() call
    callsMade,   \* calls of ensure_model() started so far
    fitCount,    \* executions of clf.fit(X, y), model.py line 230
    writeCount,  \* executions of joblib.dump(clf, MODEL_PATH), line 232
    loadCount,   \* executions of joblib.load(MODEL_PATH), line 217
    nextHandle,  \* URLModel objects constructed so far
    firstRet,    \* what the first completed ensure_model() returned
    dumpFailed,  \* some joblib.dump has raised
    appState,    \* app.py: "starting", "importing", "serving", "aborted"
    url_model,   \* app.py global url_model
    metricsFile, \* content of METRICS_PATH (metrics.json)
    worker,      \* per worker thread: the frame of its predict() call
    reqs,        \* /predict requests accepted so far
    served,      \* /predict requests that produced a result
    exClf,       \* SpecExplain: the classifier of the URLModel
    exFeats,     \* SpecExplain: extract_features(url)
    out          \* SpecExplain: what predict_with_explain returned

lifeVars == <<file, frame, callsMade, fitCount, writeCount, loadCount,
              nextHandle, firstRet, dumpFailed>>
appVars == <<appState, url_model, metricsFile, worker, reqs, served>>
exVars == <<exClf, exFeats, out>>
vars == <<file, frame, callsMade, fitCount, writeCount, loadCount,
          nextHandle, firstRet, dumpFailed, appState, url_model,
          metricsFile, worker, reqs, served, exClf, exFeats, out>>

----------------------------------------------------------------------------
(* Bounds *)

NumCallers == 2
MaxCalls == 3
NumWorkers == 2
MaxRequests == 3
MaxFeat == 2

Callers == 1..NumCallers
Workers == 1..NumWorkers

----------------------------------------------------------------------------
(* Feature vector and classifier *)

FEATURE_NAMES ==
    << "length", "num_digits", "num_specials", "num_subdomains", "has_ip",
       "has_at", "has_dash_in_domain", "suspicious_tld", "keyword_hits",
       "host_entropy", "uses_https", "num_params", "long_path" >>

NumFeatures == Len(FEATURE_NAMES)

\* the features extract_features sets to 1.0 or 0.0
BinaryFeatures ==
    { k \in 1..NumFeatures :
        FEATURE_NAMES[k] \in { "has_ip", "has_at", "has_dash_in_domain",
                               "suspicious_tld", "uses_https", "long_path" } }

Min(a, b) == IF a <= b THEN a ELSE b

Abs(x) == IF x < 0 THEN -x ELSE x

\* Values extract_features can return, in the order of FEATURE_NAMES: a
\* bounded sample in which at most two features are non-zero.
FeatureVectors ==
    { [ k \in 1..NumFeatures |->
          LET v == IF k = i THEN a ELSE IF k = j THEN b ELSE 0
          IN  IF k \in BinaryFeatures THEN Min(v, 1) ELSE v ] :
      i \in 1..NumFeatures, j \in 1..NumFeatures,
      a \in 0..MaxFeat, b \in 0..MaxFeat }

\* Fitted LogisticRegression objects: coef_[0] and intercept_[0].  Clfs[1]
\* is what fit() yields on the built-in corpus; the others are classifiers
\* an earlier build may have left in model.pkl.
Clfs ==
    << [ coef |-> << 0, 1, 1, 1, 2, 1, 2, 3, 2, 1, -3, 1, -1 >>,
         intercept |-> -2 ],
       [ coef |-> << 1, -1, 0, 2, 4, 0, 1, 1, 1, -2, -1, 0, 2 >>,
         intercept |-> 0 ],
       [ coef |-> << 0, 0, 0, 0, 0, 0, 0, 0, 0, 0, 0, 0, 0 >>,
         intercept |-> 0 ] >>

ClfIds == 1..Len(Clfs)

TrainedClf == 1

----------------------------------------------------------------------------
(* model.pkl and the call frames of ensure_model() *)

Absent == [kind |-> "absent", clf |-> 0]
Corrupt == [kind |-> "corrupt", clf |-> 0]
Valid(c) == [kind |-> "valid", clf |-> c]

\* no URLModel (None / unbound)
NoModel == [handle |-> 0, clf |-> 0]

IdleFrame ==
    [ pc |-> "idle", clf |-> 0, sawExists |-> FALSE, afterReady |-> FALSE,
      didFit |-> FALSE, didLoad |-> FALSE, raisedAt |-> "none",
      ret |-> NoModel ]

\* a check of the wrong path: the file is never found
PathExistsNever(f) == FALSE

\* MODEL_PATH.exists()
PathExists(f) == f.kind # "absent"

\* URLModel(clf=..., feature_names=...): a new object on every call
NewURLModel(c) == [handle |-> nextHandle + 1, clf |-> c]

\* a caller enters ensure_model(), which enters train_or_load()
EnterEnsure(t) ==
    /\ frame[t].pc \in {"idle", "returned", "raised"}
    /\ callsMade < MaxCalls
    /\ callsMade' = callsMade + 1
    /\ frame' = [frame EXCEPT ![t] =
                   [IdleFrame EXCEPT !.pc = "exists",
                                     !.afterReady = (firstRet # NoModel)]]
    /\ UNCHANGED <<file, fitCount, writeCount, loadCount, nextHandle,
                   firstRet, dumpFailed>>

\* if MODEL_PATH.exists():
Exists(t) ==
    /\ frame[t].pc = "exists"
    /\ frame' = [frame EXCEPT
                   ![t].pc = IF PathExists(file) THEN "load" ELSE "fit",
                   ![t].sawExists = PathExists(file)]
    /\ UNCHANGED <<file, callsMade, fitCount, writeCount, loadCount,
                   nextHandle, firstRet, dumpFailed>>
    /\ UNCHANGED appVars
    /\ UNCHANGED exVars

\* clf = joblib.load(MODEL_PATH); return URLModel(clf=clf, ...)
\* joblib.load raises on a file that is not a complete pickle.
Load(t) ==
    /\ frame[t].pc = "load"
    /\ loadCount' = loadCount + 1
    /\ IF file.kind = "valid"
         THEN /\ frame' = [frame EXCEPT ![t].pc = "returned",
                                       ![t].clf = file.clf,
                                       ![t].didLoad = TRUE,
                                       ![t].ret = NewURLModel(file.clf)]
              /\ nextHandle' = nextHandle + 1
              /\ firstRet' = IF firstRet = NoModel
                               THEN NewURLModel(file.clf) ELSE firstRet
         ELSE /\ frame' = [frame EXCEPT ![t].pc = "raised",
                                       ![t].didLoad = TRUE,
                                       ![t].raisedAt = "load"]
              /\ UNCHANGED <<nextHandle, firstRet>>
    /\ UNCHANGED <<file, callsMade, fitCount, writeCount, dumpFailed>>
    /\ UNCHANGED appVars
    /\ UNCHANGED exVars

\* df = load_sample_dataset() ... clf = LogisticRegression(max_iter=200);
\* clf.fit(X, y)
Fit(t) ==
    /\ frame[t].pc = "fit"
    /\ fitCount' = fitCount + 1
    /\ frame' = [frame EXCEPT ![t].pc = "dump", ![t].clf = TrainedClf,
                              ![t].didFit = TRUE]
    /\ UNCHANGED <<file, callsMade, writeCount, loadCount, nextHandle,
                   firstRet, dumpFailed>>
    /\ UNCHANGED appVars
    /\ UNCHANGED exVars

\* joblib.dump(clf, MODEL_PATH), first half: the file is opened for
\* writing, which creates or truncates it
DumpOpen(t) ==
    /\ frame[t].pc = "dump"
    /\ writeCount' = writeCount + 1
    /\ file' = Corrupt
    /\ frame' = [frame EXCEPT ![t].pc = "dumping"]
    /\ UNCHANGED <<callsMade, fitCount, loadCount, nextHandle, firstRet,
                   dumpFailed>>
    /\ UNCHANGED appVars
    /\ UNCHANGED exVars

\* joblib.dump, second half: the pickle is written and the file closed.
\* While another caller has the file open for writing, whether the file is
\* complete at this point depends on the order of the writes.
DumpClose(t) ==
    /\ frame[t].pc = "dumping"
    /\ \E f \in {Valid(frame[t].clf), Corrupt} :
          /\ f = Corrupt =>
                \E u \in Callers \ {t} : frame[u].pc = "dumping"
          /\ file' = f
    /\ frame' = [frame EXCEPT ![t].pc = "eval"]
    /\ UNCHANGED <<callsMade, fitCount, writeCount, loadCount, nextHandle,
                   firstRet, dumpFailed>>
    /\ UNCHANGED appVars
    /\ UNCHANGED exVars

\* joblib.dump raises (the directory is read-only, the disk is full): the
\* call is not inside a try, so the exception leaves train_or_load
DumpFail(t) ==
    /\ frame[t].pc \in {"dump", "dumping"}
    /\ \E f \in {file, Corrupt} :
          /\ frame[t].pc = "dump" => f = file
          /\ file' = f
    /\ dumpFailed' = TRUE
    /\ frame' = [frame EXCEPT ![t].pc = "raised", ![t].raisedAt = "dump"]
    /\ UNCHANGED <<callsMade, fitCount, writeCount, loadCount, nextHandle,
                   firstRet>>
    /\ UNCHANGED appVars
    /\ UNCHANGED exVars

\* try: train_test_split ... print(classification_report) except: print;
\* return URLModel(clf=clf, feature_names=[...])
Evaluate(t) ==
    /\ frame[t].pc = "eval"
    /\ frame' = [frame EXCEPT ![t].pc = "returned",
                              ![t].ret = NewURLModel(frame[t].clf)]
    /\ nextHandle' = nextHandle + 1
    /\ firstRet' = IF firstRet = NoModel
                     THEN NewURLModel(frame[t].clf) ELSE firstRet
    /\ UNCHANGED <<file, callsMade, fitCount, writeCount, loadCount,
                   dumpFailed>>
    /\ UNCHANGED appVars
    /\ UNCHANGED exVars

\* the body of train_or_load, one step of caller t
TrainOrLoad(t) ==
    \/ Exists(t)
    \/ Load(t)
    \/ Fit(t)
    \/ DumpOpen(t)
    \/ DumpClose(t)
    \/ DumpFail(t)
    \/ Evaluate(t)

\* a call of ensure_model() by a caller other than app.py
Call(t) ==
    /\ EnterEnsure(t)
    /\ UNCHANGED appVars
    /\ UNCHANGED exVars

\* def ensure_model(): return train_or_load()
ensure_model(t) ==
    \/ Call(t)
    \/ TrainOrLoad(t)

InitFile == file \in {Absent, Corrupt} \cup {Valid(c) : c \in ClfIds}

InitLife ==
    /\ InitFile
    /\ frame = [t \in Callers |-> IdleFrame]
    /\ callsMade = 0
    /\ fitCount = 0
    /\ writeCount = 0
    /\ loadCount = 0
    /\ nextHandle = 0
    /\ firstRet = NoModel
    /\ dumpFailed = FALSE

----------------------------------------------------------------------------
(* URLModel.predict_with_explain *)

TopK == 5

RECURSIVE Dot(_, _, _)
\* sum of w[i] * x[i] for i in 1..n
Dot(w, x, n) == IF n = 0 THEN 0 ELSE Dot(w, x, n - 1) + w[n] * x[n]

\* the decision score of the linear model: X . coef_ + intercept_
DecisionFunction(clf, X) == Dot(clf.coef, X, Len(X)) + clf.intercept

\* the logistic function 1 / (1 + exp(-z)), in thousandths, for an integer
\* z; in double precision it is exactly 1.0 from z = 37 on
Expit(z) ==
    LET up(a) == CASE a = 0 -> 500
                   [] a = 1 -> 731
                   [] a = 2 -> 881
                   [] a = 3 -> 953
                   [] a = 4 -> 982
                   [] a = 5 -> 993
                   [] a = 6 -> 998
                   [] a >= 7 /\ a < 37 -> 999
                   [] OTHER -> 1000
    IN  IF z >= 0 THEN up(z) ELSE 1000 - up(-z)

\* clf.predict_proba(X)[0,1]
PredictProba(clf, X) == Expit(DecisionFunction(clf, X))

\* the threshold taken as exclusive
LabelStrict(proba) == IF proba > 500 THEN "phishing" ELSE "legit"

\* label = "phishing" if proba >= 0.5 else "legit"
Label(proba) == IF proba >= 500 THEN "phishing" ELSE "legit"

\* contributions = [(name, float(val*coef[i])) ...]: computed on line 91 and
\* not used in what is returned
Contributions(clf, X) ==
    [ i \in 1..Len(X) |->
        [feature |-> FEATURE_NAMES[i], contribution |-> X[i] * clf.coef[i]] ]

\* the list that is sorted on lines 93-94: (n, c) runs over
\* zip(self.feature_names, coef), so "logit_contribution" is float(c), the
\* coefficient itself
Entries(clf, X) ==
    [ i \in 1..Len(X) |->
        [feature |-> FEATURE_NAMES[i], value |-> X[i],
         logit_contribution |-> clf.coef[i]] ]

\* e put into s, which is sorted by descending key: after every element
\* whose key is not smaller, so that equal keys keep their order
InsertByKey(s, e) ==
    LET k == Cardinality({ i \in 1..Len(s) :
                 Abs(s[i].logit_contribution) >= Abs(e.logit_contribution) })
    IN  SubSeq(s, 1, k) \o <<e>> \o SubSeq(s, k + 1, Len(s))

RECURSIVE SortedPrefix(_, _)
\* sorted(s[:n], key=lambda d: abs(d["logit_contribution"]), reverse=True);
\* Python's sort is stable, also with reverse=True
SortedPrefix(s, n) ==
    IF n = 0 THEN <<>> ELSE InsertByKey(SortedPrefix(s, n - 1), s[n])

\* sorted(...)[:5]
TopContributors(clf, X) ==
    LET all == SortedPrefix(Entries(clf, X), Len(X))
    IN  SubSeq(all, 1, Min(TopK, Len(all)))

\* predict_with_explain(url), with feats = extract_features(url) given in
\* the order of feature_names (X = [feats[f] for f in self.feature_names])
PredictWithExplain(clf, feats) ==
    LET X == feats
        proba == PredictProba(clf, X)
    IN  [ pred_label |-> Label(proba),
          pred_proba |-> proba,
          features |-> feats,
          top_contributors |-> TopContributors(clf, X) ]

NoResult ==
    [ pred_label |-> "none", pred_proba |-> 0, features |-> <<>>,
      top_contributors |-> <<>> ]

InitExplainIdle ==
    /\ exClf = TrainedClf
    /\ exFeats = <<>>
    /\ out = NoResult

InitExplain ==
    /\ exClf \in ClfIds
    /\ exFeats \in FeatureVectors
    /\ out = NoResult

\* one call of predict_with_explain on a URLModel
Explain ==
    /\ out = NoResult
    /\ out' = PredictWithExplain(Clfs[exClf], exFeats)
    /\ UNCHANGED <<exClf, exFeats>>
    /\ UNCHANGED lifeVars
    /\ UNCHANGED appVars

----------------------------------------------------------------------------
(* app.py: module import, /predict and metrics.json *)

\* the thread that imports app.py
Main == 1

\* return {"total": 0, "phishing": 0, "legit": 0, "last_updated": None}
DefaultMetrics ==
    [total |-> 0, phishing |-> 0, legit |-> 0, last_updated |-> "None"]

\* METRICS_PATH does not exist
NoMetricsFile ==
    [total |-> -1, phishing |-> -1, legit |-> -1, last_updated |-> "nofile"]

IdleWorker == [pc |-> "idle", label |-> "none", m |-> DefaultMetrics]

\* load_metrics()
load_metrics == IF metricsFile # NoMetricsFile THEN metricsFile ELSE DefaultMetrics

\* save_metrics(metrics): last_updated is set, the dict is written
save_metrics(m) == metricsFile' = [m EXCEPT !.last_updated = "utcnow"]

\* the else branch left out: a "legit" result is counted in total only
BumpNoElse(m, label) ==
    IF label = "phishing"
      THEN [m EXCEPT !.total = @ + 1, !.phishing = @ + 1]
      ELSE [m EXCEPT !.total = @ + 1]

\* m["total"] += 1; if result["pred_label"] == "phishing":
\* m["phishing"] += 1 else: m["legit"] += 1
Bump(m, label) ==
    IF label = "phishing"
      THEN [m EXCEPT !.total = @ + 1, !.phishing = @ + 1]
      ELSE [m EXCEPT !.total = @ + 1, !.legit = @ + 1]

\* result["pred_label"] for the results url_model.predict_with_explain(url)
\* can return, by the classifier of url_model
PredLabels ==
    [ c \in ClfIds |->
        { PredictWithExplain(Clfs[c], feats).pred_label :
            feats \in FeatureVectors } ]

\* the exception of ensure_model() swallowed: the server starts regardless
StartupAlwaysServes(pc) == "serving"

\* What becomes of the application when line 28, url_model = ensure_model(),
\* has run: an exception there ends the import of app.py, so no route below
\* it is ever registered and nothing is served.
StartupOutcome(pc) == IF pc = "returned" THEN "serving" ELSE "aborted"

\* app.py is imported: line 28 calls ensure_model()
AppImport ==
    /\ appState = "starting"
    /\ EnterEnsure(Main)
    /\ appState' = "importing"
    /\ UNCHANGED <<url_model, metricsFile, worker, reqs, served>>
    /\ UNCHANGED exVars

\* ensure_model() runs in the importing thread
AppEnsureModel == TrainOrLoad(Main)

\* ensure_model() has returned or raised: url_model is bound, the routes
\* are registered and the server starts, or the import fails
AppImportEnd ==
    /\ appState = "importing"
    /\ frame[Main].pc \in {"returned", "raised"}
    /\ appState' = StartupOutcome(frame[Main].pc)
    /\ url_model' = frame[Main].ret
    /\ UNCHANGED <<metricsFile, worker, reqs, served>>
    /\ UNCHANGED lifeVars
    /\ UNCHANGED exVars

\* predict(payload), first part: url = payload.url.strip();
\* result = url_model.predict_with_explain(url).  A url_model that is not
\* bound makes the request fail.
Predict(w) ==
    /\ appState = "serving"
    /\ worker[w].pc = "idle"
    /\ reqs < MaxRequests
    /\ reqs' = reqs + 1
    /\ IF url_model = NoModel
         THEN UNCHANGED <<worker, served>>
         ELSE /\ \E label \in PredLabels[url_model.clf] :
                   worker' = [worker EXCEPT ![w].pc = "predicted",
                                             ![w].label = label]
              /\ served' = served + 1
    /\ UNCHANGED <<appState, url_model, metricsFile>>
    /\ UNCHANGED lifeVars
    /\ UNCHANGED exVars

\* m = load_metrics(); m["total"] += 1; m[...] += 1
LoadMetrics(w) ==
    /\ worker[w].pc = "predicted"
    /\ worker' = [worker EXCEPT ![w].pc = "loaded",
                               ![w].m = Bump(load_metrics, worker[w].label)]
    /\ UNCHANGED <<appState, url_model, metricsFile, reqs, served>>
    /\ UNCHANGED lifeVars
    /\ UNCHANGED exVars

\* save_metrics(m); return PredictOut(**result)
SaveMetrics(w) ==
    /\ worker[w].pc = "loaded"
    /\ save_metrics(worker[w].m)
    /\ worker' = [worker EXCEPT ![w] = IdleWorker]
    /\ UNCHANGED <<appState, url_model, reqs, served>>
    /\ UNCHANGED lifeVars
    /\ UNCHANGED exVars

InitAppIdle ==
    /\ appState = "starting"
    /\ url_model = NoModel
    /\ metricsFile = NoMetricsFile
    /\ worker = [w \in Workers |-> IdleWorker]
    /\ reqs = 0
    /\ served = 0

----------------------------------------------------------------------------
(* Specifications *)

\* callers of ensure_model() in one process, any interleaving
InitLifecycle == InitLife /\ InitAppIdle /\ InitExplainIdle

NextLifecycle == \E t \in Callers : ensure_model(t)

SpecLifecycle == InitLifecycle /\ [][NextLifecycle]_vars

\* the application
InitApp == InitLife /\ InitAppIdle /\ InitExplainIdle

NextApp ==
    \/ AppImport
    \/ AppEnsureModel
    \/ AppImportEnd
    \/ \E w \in Workers : Predict(w)
    \/ \E w \in Workers : LoadMetrics(w)
    \/ \E w \in Workers : SaveMetrics(w)

SpecApp == InitApp /\ [][NextApp]_vars

\* predict_with_explain on every classifier and feature vector of the sample
InitEx == InitExplain /\ InitAppIdle /\ file = Absent
            /\ frame = [t \in Callers |-> IdleFrame] /\ callsMade = 0
            /\ fitCount = 0 /\ writeCount = 0 /\ loadCount = 0
            /\ nextHandle = 0 /\ firstRet = NoModel /\ dumpFailed = FALSE

NextExplain == Explain

SpecExplain == InitEx /\ [][NextExplain]_vars

----------------------------------------------------------------------------
(* Claims *)

\* C1: ensure_model() is idempotent: a call that starts after an earlier
\* call has returned neither loads nor trains, and returns the handle the
\* first call returned.
C1_EnsureModelIdempotent ==
    \A t \in Callers :
        (frame[t].pc = "returned" /\ frame[t].afterReady) =>
            /\ ~frame[t].didLoad
            /\ ~frame[t].didFit
            /\ frame[t].ret = firstRet

\* C2: with callers of ensure_model() running concurrently and no persisted
\* model, training runs at most once and model.pkl is written at most once.
\* (Without a failed write, only callers that overlap can train twice: a
\* caller that starts after a completed write finds the file.)
C2_TrainAndWriteAtMostOnce ==
    ~dumpFailed => (fitCount <= 1 /\ writeCount <= 1)

\* C3: a call whose deserialization of model.pkl fails (file absent or
\* corrupt) falls through to training and does not fail: no call of
\* ensure_model() ends with the exception of joblib.load.
C3_LoadFailureFallsThrough ==
    \A t \in Callers : ~(frame[t].pc = "raised" /\ frame[t].raisedAt = "load")

\* C4: a failure to write model.pkl after training is not fatal: no call of
\* ensure_model() ends with the exception of joblib.dump.
C4_WriteFailureNotFatal ==
    \A t \in Callers : ~(frame[t].pc = "raised" /\ frame[t].raisedAt = "dump")

\* C5: when model.pkl exists as train_or_load checks for it, the call takes
\* the load branch; a call on the load branch does not train and does not
\* write model.pkl, and the model it returns is the one the file holds.
C5_PersistedModelUsedAsIs ==
    [][ \A t \in Callers :
          /\ (frame[t].pc = "exists" /\ frame'[t] # frame[t]
                /\ file.kind # "absent")
               => (frame'[t].pc = "load" /\ file' = file)
          /\ (frame[t].pc = "load" /\ frame'[t] # frame[t])
               => /\ file' = file
                  /\ fitCount' = fitCount
                  /\ writeCount' = writeCount
                  /\ ~frame'[t].didFit
                  /\ frame'[t].pc = "returned"
                       => (file.kind = "valid"
                             /\ frame'[t].ret.clf = file.clf) ]_vars

\* a call has returned a persisted classifier other than the one training
\* yields, with no training and no write in the process
C5_Witness ==
    \E t \in Callers :
        /\ frame[t].pc = "returned"
        /\ frame[t].sawExists
        /\ frame[t].ret.clf # TrainedClf
        /\ file = Valid(frame[t].ret.clf)
        /\ fitCount = 0
        /\ writeCount = 0

\* the position of a feature in the canonical order
FeatureIndex(name) == CHOOSE k \in 1..NumFeatures : FEATURE_NAMES[k] = name

\* weight[feature] * value[feature] for the call recorded in out
ContributionOf(name) ==
    Clfs[exClf].coef[FeatureIndex(name)] * exFeats[FeatureIndex(name)]

\* C6: every entry of top_contributors reports the feature's observed value
\* and, as logit_contribution, weight[feature] * value[feature].
C6_ContributionIsWeightTimesValue ==
    out # NoResult =>
        \A i \in 1..Len(out.top_contributors) :
            LET e == out.top_contributors[i]
            IN  /\ e.value = exFeats[FeatureIndex(e.feature)]
                /\ e.logit_contribution = ContributionOf(e.feature)

\* C7: top_contributors has min(5, number of features) entries, in order of
\* non-increasing |weight * value|; no feature left out has a larger
\* |weight * value| than one included; equal ones are in canonical order.
C7_TopFiveByAbsContribution ==
    out # NoResult =>
        LET top == out.top_contributors
            inTop == { top[i].feature : i \in 1..Len(top) }
        IN  /\ Len(top) = Min(TopK, NumFeatures)
            /\ \A i, j \in 1..Len(top) :
                  i < j =>
                    /\ Abs(ContributionOf(top[i].feature))
                         >= Abs(ContributionOf(top[j].feature))
                    /\ Abs(ContributionOf(top[i].feature))
                         = Abs(ContributionOf(top[j].feature))
                       => FeatureIndex(top[i].feature)
                            < FeatureIndex(top[j].feature)
            /\ \A k \in 1..NumFeatures :
                  FEATURE_NAMES[k] \notin inTop =>
                    \A i \in 1..Len(top) :
                        Abs(ContributionOf(FEATURE_NAMES[k]))
                          <= Abs(ContributionOf(top[i].feature))

\* C8: pred_label is "phishing" exactly when pred_proba >= 0.5, and is
\* "legit" otherwise.
C8_LabelIffProbaAtLeastHalf ==
    out # NoResult =>
        /\ out.pred_label = "phishing" <=> out.pred_proba >= 500
        /\ out.pred_label # "phishing" => out.pred_label = "legit"

\* a probability of exactly 0.5 was labelled "phishing"
C8_Witness ==
    /\ out # NoResult
    /\ out.pred_proba = 500
    /\ out.pred_label = "phishing"

\* C9: a /predict request is handled only after ensure_model() has returned
\* the model bound to url_model; once ensure_model() has raised at import,
\* no request is ever handled.
C9_NoPredictionBeforeReady ==
    /\ (reqs > 0 \/ \E w \in Workers : worker[w].pc # "idle") =>
          /\ frame[Main].pc = "returned"
          /\ url_model # NoModel
          /\ url_model = frame[Main].ret
    /\ frame[Main].pc = "raised" => (reqs = 0 /\ served = 0)

\* a request has produced a result, from the model ensure_model() returned
C9_Witness ==
    /\ served > 0
    /\ url_model = frame[Main].ret
    /\ \E w \in Workers : worker[w].pc = "predicted"

\* C10: the stored metrics satisfy total = phishing + legit, whatever the
\* interleaving of the load_metrics and save_metrics steps of the requests.
C10_MetricsTotalIsSum ==
    metricsFile # NoMetricsFile =>
        metricsFile.total = metricsFile.phishing + metricsFile.legit

\* two requests have completed, interleaved so that one overwrote the
\* other's update
C10_Witness ==
    /\ metricsFile # NoMetricsFile
    /\ served = 2
    /\ \A w \in Workers : worker[w].pc = "idle"
    /\ metricsFile.total = 1

====
